---- MODULE Spec2Model ----
(***************************************************************************)
(* The storage core of todo-api: the repository contract TodoRepository    *)
(* and its two backends, TodoRepositoryForMemory (a HashMap behind one     *)
(* RwLock) and TodoRepositoryForDb (sqlx transactions on a PgPool).        *)
(*                                                                         *)
(* Every caller is a process that invokes one operation at a time.  An     *)
(* operation is a sequence of steps: taking the lock (or beginning the     *)
(* transaction), each read and each write of the body, and the return,     *)
(* which drops the guard.                                                  *)
(***************************************************************************)
EXTENDS Integers, FiniteSets, Sequences, TLC

\* ------------------------------------------------------------------ bounds

\* The callers, the create calls one store serves, the Todos it holds at
\* once, and the rows the table's sequence hands out.
NumProcs == 2
MaxCreates == 4
MaxTodos == 3
MaxDbCreates == 2

Procs == 1..NumProcs
Ids == 1..MaxTodos
DbIds == 1..MaxDbCreates
Texts == {"a", "b"}
NoProc == 0

\* Option<T>: None, and Some(v); a field a call does not use is None.
None == << >>
Some(v) == <<v>>

\* ------------------------------------------------------------------ values

TodoNew_Completed(id, text) == [id |-> id, text |-> text, completed |-> TRUE]
TodoNew(id, text) == [id |-> id, text |-> text, completed |-> FALSE]

NoRet == [kind |-> "NoRet"]
Ok(todo) == [kind |-> "Ok", todo |-> todo]
OkAll(todos) == [kind |-> "OkAll", todos |-> todos]
OkUnit == [kind |-> "OkUnit"]
NotFound(id) == [kind |-> "NotFound", id |-> id]

OptTexts == {None} \cup {Some(t) : t \in Texts}
OptBools == {None} \cup {Some(b) : b \in BOOLEAN}

NoArg == [id |-> 0, text |-> None, completed |-> None]
NoLoc == [id |-> 0, text |-> "", completed |-> FALSE]

\* ------------------------------------------------------------------ state

VARIABLES
    store,        \* TodoRepositoryForMemory.store: the HashMap<i32, Todo>
    lockWriter,   \* the holder of the RwLock's write guard, or NoProc
    lockReaders,  \* the holders of read guards
    mpc,          \* each caller's position in its in-memory operation
    mop,          \* the operation it called
    marg,         \* its arguments: id, and the payload's text and completed
    mloc,         \* its local `id` (create) or `todo` (update)
    mret,         \* what the operation returned
    issued,       \* history: how often each id was returned by a create
    removed,      \* history: how often each id was deleted successfully
    burst         \* history: the creates that ran together, and their results

memVars == <<store, lockWriter, lockReaders, mpc, mop, marg, mloc, mret,
             issued, removed, burst>>

VARIABLES
    table,        \* the committed rows of the todos table, by id
    seq,          \* the last value of the table's id sequence
    txn,          \* each caller's transaction: open or not, its pending write
    dpc,          \* each caller's position in its database operation
    dop,          \* the operation it called
    darg,         \* its arguments
    dloc,         \* its locals: old_todo, the fetched row, the rows affected
    dret          \* what the operation returned

dbVars == <<table, seq, txn, dpc, dop, darg, dloc, dret>>

VARIABLES
    job,          \* the call one caller issues to both backends
    corr,         \* the pairs of ids the two backends gave to the same create
    fresh,        \* history: per backend, the Todos the last create or the
                  \* updates since returned, whose ids saw no write since
    kept,         \* history: the Todos creates of the in-memory store
                  \* returned, whose ids saw no update or delete since
    step          \* the calls of the scripted scenario made so far

bothVars == <<job, corr, fresh, kept, step>>

vars == <<memVars, dbVars, bothVars>>

\* ------------------------------------------------------- HashMap helpers

\* HashMap::len
MapLen(m) == Cardinality(DOMAIN m)

\* HashMap::insert: adds the key, or replaces the value it holds.
MapInsert(m, k, v) == [x \in (DOMAIN m) \cup {k} |-> IF x = k THEN v ELSE m[x]]

\* HashMap::remove
MapRemove_Clear(m, k) == [x \in {} |-> x]
MapRemove(m, k) == [x \in (DOMAIN m) \ {k} |-> m[x]]

\* HashMap::values, collected; the iteration order is unspecified.
MapValues(m) == {m[k] : k \in DOMAIN m}

EmptyMap == [x \in {} |-> x]

\* ------------------------------------------------- in-memory operations

\* RwLock::write returns once no guard of either kind is held.
CanWrite_Unlocked == TRUE
CanWrite == lockWriter = NoProc /\ lockReaders = {}

\* RwLock::read returns once no write guard is held.
CanRead_Unlocked == TRUE
CanRead == lockWriter = NoProc

\* create: let id = (store.len() + 1) as i32
NewId_AfterMax(m) ==
    IF DOMAIN m = {} THEN 1
    ELSE (CHOOSE k \in DOMAIN m : \A j \in DOMAIN m : j <= k) + 1
NewId_First(m) == 1
NewId(m) == MapLen(m) + 1

\* Option::unwrap_or / unwrap_or_else
UnwrapOr(opt, dflt) == IF opt = None THEN dflt ELSE opt[1]

\* update: the Todo built from the payload over the stored one.
MergedTodo_Replace(id, payload, todo) ==
    [id |-> id,
     text |-> UnwrapOr(payload.text, todo.text),
     completed |-> UnwrapOr(payload.completed, FALSE)]
MergedTodo(id, payload, todo) ==
    [id |-> id,
     text |-> UnwrapOr(payload.text, todo.text),
     completed |-> UnwrapOr(payload.completed, todo.completed)]

\* store.get(&id) ... ok_or(NotFound(id))
GetResult_Uncompleted(m, id) ==
    IF id \in DOMAIN m THEN Ok([m[id] EXCEPT !.completed = FALSE])
    ELSE NotFound(id)
GetResult(m, id) == IF id \in DOMAIN m THEN Ok(m[id]) ELSE NotFound(id)

\* store.remove(&id).ok_or(NotFound(id))
RemoveResult_AlwaysOk(m, id) == OkUnit
RemoveResult(m, id) == IF id \in DOMAIN m THEN OkUnit ELSE NotFound(id)

\* The arguments each operation takes, with its id among `ids`.
ArgsOf(op, ids) ==
    CASE op = "create" ->
            {[id |-> 0, text |-> Some(t), completed |-> None] : t \in Texts}
      [] op = "all" -> {NoArg}
      [] op = "update" ->
            {[id |-> i, text |-> t, completed |-> c] :
                i \in ids, t \in OptTexts, c \in OptBools}
      [] OTHER -> {[id |-> i, text |-> None, completed |-> None] : i \in ids}

Sum(f) == LET S[i \in 0..MaxTodos] ==
                  IF i = 0 THEN 0 ELSE S[i - 1] + f[i]
          IN S[MaxTodos]

\* The create calls that are running, and all those made so far.
CreatesRunning == Cardinality({q \in Procs : mop[q] = "create"})
CreateCalls == Sum(issued) + CreatesRunning

\* The creates that count as one concurrent batch: a create joins the batch
\* while no member has returned, and begins a new one when no writer is
\* running; creates that run beside an update, a delete or a create outside
\* the batch are not counted, and the call of an update or a delete ends
\* the batch.
NoBurst == [open |-> {}, got |-> {}, n |-> 0]
Writers(p) ==
    {q \in Procs \ {p} : mop[q] \in {"create", "update", "delete"}}
BurstAfterCall(p, op) ==
    CASE op = "create" ->
            IF Writers(p) \subseteq burst.open /\ burst.n = 0
            THEN [burst EXCEPT !.open = @ \cup {p}]
            ELSE IF Writers(p) = {} THEN [NoBurst EXCEPT !.open = {p}]
            ELSE NoBurst
      [] op \in {"update", "delete"} -> NoBurst
      [] OTHER -> burst
BurstAfterReturn(p) ==
    IF p \in burst.open
    THEN [open |-> burst.open \ {p},
          got |-> burst.got \cup {mret[p].todo},
          n |-> burst.n + 1]
    ELSE burst

\* A caller invokes an operation of the repository and waits for the lock.
MemCall(p, op) ==
    /\ mpc[p] = "idle"
    /\ op = "create" => /\ CreateCalls < MaxCreates
                        /\ MapLen(store) + CreatesRunning < MaxTodos
    /\ mop' = [mop EXCEPT ![p] = op]
    /\ mpc' = [mpc EXCEPT ![p] =
                  IF op \in {"find", "all"} THEN "rlock" ELSE "wlock"]
    /\ burst' = BurstAfterCall(p, op)
    /\ UNCHANGED <<store, lockWriter, lockReaders, marg, mloc, mret,
                   issued, removed>>

\* write_store_ref; the body then runs with the call's arguments, which
\* nothing but the body reads.
MemAcquireWrite(p, arg) ==
    /\ mpc[p] = "wlock"
    /\ CanWrite
    /\ lockWriter' = p
    /\ marg' = [marg EXCEPT ![p] = arg]
    /\ mpc' = [mpc EXCEPT ![p] =
                  CASE mop[p] = "create" -> "crt_len"
                    [] mop[p] = "update" -> "upd_get"
                    [] OTHER -> "del_rm"]
    /\ UNCHANGED <<store, lockReaders, mop, mloc, mret,
                   issued, removed, burst>>

\* read_store_ref
MemAcquireRead(p, arg) ==
    /\ mpc[p] = "rlock"
    /\ CanRead
    /\ lockReaders' = lockReaders \cup {p}
    /\ marg' = [marg EXCEPT ![p] = arg]
    /\ mpc' = [mpc EXCEPT ![p] =
                  IF mop[p] = "find" THEN "find_get" ELSE "all_vals"]
    /\ UNCHANGED <<store, lockWriter, mop, mloc, mret,
                   issued, removed, burst>>

\* create: the id is computed from the map's length
MemCreateLen(p) ==
    /\ mpc[p] = "crt_len"
    /\ mloc' = [mloc EXCEPT ![p] = [NoLoc EXCEPT !.id = NewId(store)]]
    /\ mpc' = [mpc EXCEPT ![p] = "crt_ins"]
    /\ UNCHANGED <<store, lockWriter, lockReaders, mop, marg, mret,
                   issued, removed, burst>>

\* create: Todo::new, store.insert, Ok(todo)
MemCreateInsert(p) ==
    /\ mpc[p] = "crt_ins"
    /\ LET todo == TodoNew(mloc[p].id, marg[p].text[1])
       IN /\ store' = MapInsert(store, mloc[p].id, todo)
          /\ mret' = [mret EXCEPT ![p] = Ok(todo)]
    /\ mpc' = [mpc EXCEPT ![p] = "ret"]
    /\ UNCHANGED <<lockWriter, lockReaders, mop, marg, mloc,
                   issued, removed, burst>>

\* find
MemFindGet(p) ==
    /\ mpc[p] = "find_get"
    /\ mret' = [mret EXCEPT ![p] = GetResult(store, marg[p].id)]
    /\ mpc' = [mpc EXCEPT ![p] = "ret"]
    /\ UNCHANGED <<store, lockWriter, lockReaders, mop, marg, mloc,
                   issued, removed, burst>>

\* all
MemAllValues(p) ==
    /\ mpc[p] = "all_vals"
    /\ mret' = [mret EXCEPT ![p] = OkAll(MapValues(store))]
    /\ mpc' = [mpc EXCEPT ![p] = "ret"]
    /\ UNCHANGED <<store, lockWriter, lockReaders, mop, marg, mloc,
                   issued, removed, burst>>

\* update: store.get(&id).context(NotFound(id))?
MemUpdateGet(p) ==
    /\ mpc[p] = "upd_get"
    /\ LET got == GetResult(store, marg[p].id)
       IN IF got.kind = "Ok"
          THEN /\ mloc' = [mloc EXCEPT ![p] = got.todo]
               /\ mpc' = [mpc EXCEPT ![p] = "upd_ins"]
               /\ UNCHANGED mret
          ELSE /\ mret' = [mret EXCEPT ![p] = got]
               /\ mpc' = [mpc EXCEPT ![p] = "ret"]
               /\ UNCHANGED mloc
    /\ UNCHANGED <<store, lockWriter, lockReaders, mop, marg,
                   issued, removed, burst>>

\* update: the merged Todo is built, inserted and returned
MemUpdateInsert(p) ==
    /\ mpc[p] = "upd_ins"
    /\ LET todo == MergedTodo(marg[p].id, marg[p], mloc[p])
       IN /\ store' = MapInsert(store, marg[p].id, todo)
          /\ mret' = [mret EXCEPT ![p] = Ok(todo)]
    /\ mpc' = [mpc EXCEPT ![p] = "ret"]
    /\ UNCHANGED <<lockWriter, lockReaders, mop, marg, mloc,
                   issued, removed, burst>>

\* delete
MemDeleteRemove(p) ==
    /\ mpc[p] = "del_rm"
    /\ store' = MapRemove(store, marg[p].id)
    /\ mret' = [mret EXCEPT ![p] = RemoveResult(store, marg[p].id)]
    /\ mpc' = [mpc EXCEPT ![p] = "ret"]
    /\ UNCHANGED <<lockWriter, lockReaders, mop, marg, mloc,
                   issued, removed, burst>>

\* The operation returns its result to the caller and its guard is dropped.
MemReturn_KeepsGuard(p) ==
    /\ mpc[p] = "ret"
    /\ mpc' = [mpc EXCEPT ![p] = "idle"]
    /\ mop' = [mop EXCEPT ![p] = "none"]
    /\ marg' = [marg EXCEPT ![p] = NoArg]
    /\ mloc' = [mloc EXCEPT ![p] = NoLoc]
    /\ mret' = [mret EXCEPT ![p] = NoRet]
    /\ issued' = IF mop[p] = "create"
                 THEN [issued EXCEPT ![mret[p].todo.id] = @ + 1]
                 ELSE issued
    /\ removed' = IF mop[p] = "delete" /\ mret[p].kind = "OkUnit"
                  THEN [removed EXCEPT ![marg[p].id] = @ + 1]
                  ELSE removed
    /\ burst' = BurstAfterReturn(p)
    /\ UNCHANGED <<store, lockWriter, lockReaders>>
MemReturn(p) ==
    /\ mpc[p] = "ret"
    /\ lockWriter' = IF lockWriter = p THEN NoProc ELSE lockWriter
    /\ lockReaders' = lockReaders \ {p}
    /\ mpc' = [mpc EXCEPT ![p] = "idle"]
    /\ mop' = [mop EXCEPT ![p] = "none"]
    /\ marg' = [marg EXCEPT ![p] = NoArg]
    /\ mloc' = [mloc EXCEPT ![p] = NoLoc]
    /\ mret' = [mret EXCEPT ![p] = NoRet]
    /\ issued' = IF mop[p] = "create"
                 THEN [issued EXCEPT ![mret[p].todo.id] = @ + 1]
                 ELSE issued
    /\ removed' = IF mop[p] = "delete" /\ mret[p].kind = "OkUnit"
                  THEN [removed EXCEPT ![marg[p].id] = @ + 1]
                  ELSE removed
    /\ burst' = BurstAfterReturn(p)
    /\ UNCHANGED store

MemInit ==
    /\ store = EmptyMap
    /\ lockWriter = NoProc
    /\ lockReaders = {}
    /\ mpc = [p \in Procs |-> "idle"]
    /\ mop = [p \in Procs |-> "none"]
    /\ marg = [p \in Procs |-> NoArg]
    /\ mloc = [p \in Procs |-> NoLoc]
    /\ mret = [p \in Procs |-> NoRet]
    /\ issued = [i \in Ids |-> 0]
    /\ removed = [i \in Ids |-> 0]
    /\ burst = NoBurst

RepoOps == {"create", "find", "all", "update", "delete"}

\* --------------------------------------------------- database operations

NoRow == [id |-> 0, text |-> "", completed |-> FALSE]
NoTxn == [open |-> FALSE, kind |-> "none", row |-> NoRow]
OpenTxn == [open |-> TRUE, kind |-> "none", row |-> NoRow]
NoDbLoc == [old |-> NoRow, row |-> NoRow, n |-> 0]
Panic(msg) == [kind |-> "Panic", msg |-> msg]
Unexpected(msg) == [kind |-> "Unexpected", msg |-> msg]
SqlxError(msg) == [kind |-> "SqlxError", msg |-> msg]

\* sql/insertTodo.sql: the new row, its id drawn from the table's sequence.
InsertTodoSql(sq, text) == [id |-> sq + 1, text |-> text, completed |-> FALSE]

\* sql/findTodo.sql: the rows with that id.
FindTodoSql(tbl, id) == {tbl[k] : k \in (DOMAIN tbl) \cap {id}}

\* sql/allTodo.sql: every row.
AllTodoSql(tbl) == {tbl[k] : k \in DOMAIN tbl}

\* sql/updateTodo.sql: the row with that id is set and returned.
UpdateTodoSql(tbl, text, completed, id) ==
    {[id |-> k, text |-> text, completed |-> completed] :
        k \in (DOMAIN tbl) \cap {id}}

\* sql/deleteTodo.sql: the number of rows deleted.
DeleteTodoSql(tbl, id) == Cardinality((DOMAIN tbl) \cap {id})

\* fetch_one: the row, or sqlx::Error::RowNotFound when there is none;
\* find maps RowNotFound to NotFound(id).
FetchOneOrNotFound(rows, id) ==
    IF rows = {} THEN NotFound(id) ELSE Ok(CHOOSE r \in rows : TRUE)

\* execute: Ok(rows affected) whatever the count, so delete's map_err
\* never sees RowNotFound.
ExecuteResult(n, id) == OkUnit

\* A statement that writes a row waits while another open transaction
\* holds a pending write of that row.
RowFree(p, id) ==
    \A q \in Procs \ {p} : ~(txn[q].kind \in {"upd", "del"} /\ txn[q].row.id = id)

\* commit: the transaction's pending write becomes visible.
Committed(tbl, t) ==
    CASE t.kind \in {"ins", "upd"} -> MapInsert(tbl, t.row.id, t.row)
      [] t.kind = "del" -> MapRemove(tbl, t.row.id)
      [] OTHER -> tbl

DbCreateCalls ==
    seq + Cardinality({q \in Procs : dop[q] = "create"
                                     /\ dpc[q] \in {"begin", "crt_ins"}})

\* A caller invokes an operation of the repository.
DbCall(p, op) ==
    /\ dpc[p] = "idle"
    /\ op = "create" => DbCreateCalls < MaxDbCreates
    /\ dop' = [dop EXCEPT ![p] = op]
    /\ dpc' = [dpc EXCEPT ![p] =
                  IF op \in {"find", "all"} THEN "query" ELSE "begin"]
    /\ UNCHANGED <<table, seq, txn, darg, dloc, dret>>

\* self.pool.begin(); the body then runs with the call's arguments.
DbBegin(p, arg) ==
    /\ dpc[p] = "begin"
    /\ txn' = [txn EXCEPT ![p] = OpenTxn]
    /\ darg' = [darg EXCEPT ![p] = arg]
    /\ dpc' = [dpc EXCEPT ![p] =
                  CASE dop[p] = "create" -> "crt_ins"
                    [] dop[p] = "update" -> "upd_find"
                    [] OTHER -> "del_exec"]
    /\ UNCHANGED <<table, seq, dop, dloc, dret>>

\* create: insertTodo.sql, fetch_one on the transaction
DbCreateInsert(p) ==
    /\ dpc[p] = "crt_ins"
    /\ LET row == InsertTodoSql(seq, darg[p].text[1])
       IN /\ seq' = row.id
          /\ txn' = [txn EXCEPT ![p] = [open |-> TRUE, kind |-> "ins",
                                        row |-> row]]
          /\ dloc' = [dloc EXCEPT ![p].row = row]
    /\ dpc' = [dpc EXCEPT ![p] = "commit"]
    /\ UNCHANGED <<table, dop, darg, dret>>

\* find: findTodo.sql, fetch_one on the pool
DbFind(p, arg) ==
    /\ dpc[p] = "query"
    /\ dop[p] = "find"
    /\ darg' = [darg EXCEPT ![p] = arg]
    /\ dret' = [dret EXCEPT ![p] =
                   FetchOneOrNotFound(FindTodoSql(table, arg.id), arg.id)]
    /\ dpc' = [dpc EXCEPT ![p] = "ret"]
    /\ UNCHANGED <<table, seq, txn, dop, dloc>>

\* all: allTodo.sql, fetch_all on the pool
DbAll(p) ==
    /\ dpc[p] = "query"
    /\ dop[p] = "all"
    /\ dret' = [dret EXCEPT ![p] = OkAll(AllTodoSql(table))]
    /\ dpc' = [dpc EXCEPT ![p] = "ret"]
    /\ UNCHANGED <<table, seq, txn, dop, darg, dloc>>

\* update: let old_todo = self.find(id).await?  The read goes to the pool,
\* not to the transaction; on NotFound the transaction is dropped.
DbUpdateFind(p) ==
    /\ dpc[p] = "upd_find"
    /\ LET got == FetchOneOrNotFound(FindTodoSql(table, darg[p].id),
                                     darg[p].id)
       IN IF got.kind = "Ok"
          THEN /\ dloc' = [dloc EXCEPT ![p].old = got.todo]
               /\ dpc' = [dpc EXCEPT ![p] = "upd_exec"]
               /\ UNCHANGED <<dret, txn>>
          ELSE /\ dret' = [dret EXCEPT ![p] = got]
               /\ txn' = [txn EXCEPT ![p] = NoTxn]
               /\ dpc' = [dpc EXCEPT ![p] = "ret"]
               /\ UNCHANGED dloc
    /\ UNCHANGED <<table, seq, dop, darg>>

\* update: updateTodo.sql with the payload's fields or old_todo's,
\* fetch_one on the transaction; no row makes unwrap_or_else panic.
DbUpdateExec(p) ==
    /\ dpc[p] = "upd_exec"
    /\ RowFree(p, darg[p].id)
    /\ LET rows == UpdateTodoSql(table,
                       UnwrapOr(darg[p].text, dloc[p].old.text),
                       UnwrapOr(darg[p].completed, dloc[p].old.completed),
                       darg[p].id)
       IN IF rows # {}
          THEN LET row == CHOOSE r \in rows : TRUE
               IN /\ txn' = [txn EXCEPT ![p] = [open |-> TRUE, kind |-> "upd",
                                                row |-> row]]
                  /\ dloc' = [dloc EXCEPT ![p].row = row]
                  /\ dpc' = [dpc EXCEPT ![p] = "commit"]
                  /\ UNCHANGED dret
          ELSE /\ txn' = [txn EXCEPT ![p] = NoTxn]
               /\ dret' = [dret EXCEPT ![p] = Panic("Failed to update todo.")]
               /\ dpc' = [dpc EXCEPT ![p] = "ret"]
               /\ UNCHANGED dloc
    /\ UNCHANGED <<table, seq, dop, darg>>

\* delete: deleteTodo.sql, execute on the transaction
DbDeleteExec(p) ==
    /\ dpc[p] = "del_exec"
    /\ RowFree(p, darg[p].id)
    /\ LET n == DeleteTodoSql(table, darg[p].id)
           res == ExecuteResult(n, darg[p].id)
       IN /\ dloc' = [dloc EXCEPT ![p].n = n]
          /\ IF res.kind = "OkUnit"
             THEN /\ txn' = [txn EXCEPT ![p] =
                                IF n = 0 THEN OpenTxn
                                ELSE [open |-> TRUE, kind |-> "del",
                                      row |-> table[darg[p].id]]]
                  /\ dpc' = [dpc EXCEPT ![p] = "commit"]
                  /\ UNCHANGED dret
             ELSE /\ txn' = [txn EXCEPT ![p] = NoTxn]
                  /\ dret' = [dret EXCEPT ![p] = res]
                  /\ dpc' = [dpc EXCEPT ![p] = "ret"]
    /\ UNCHANGED <<table, seq, dop, darg>>

\* transaction.commit(), then Ok(todo) or Ok(())
DbCommit(p) ==
    /\ dpc[p] = "commit"
    /\ table' = Committed(table, txn[p])
    /\ txn' = [txn EXCEPT ![p] = NoTxn]
    /\ dret' = [dret EXCEPT ![p] =
                   IF dop[p] = "delete" THEN OkUnit ELSE Ok(dloc[p].row)]
    /\ dpc' = [dpc EXCEPT ![p] = "ret"]
    /\ UNCHANGED <<seq, dop, darg, dloc>>

\* The operation returns its result to the caller.
DbReturn(p) ==
    /\ dpc[p] = "ret"
    /\ dpc' = [dpc EXCEPT ![p] = "idle"]
    /\ dop' = [dop EXCEPT ![p] = "none"]
    /\ darg' = [darg EXCEPT ![p] = NoArg]
    /\ dloc' = [dloc EXCEPT ![p] = NoDbLoc]
    /\ dret' = [dret EXCEPT ![p] = NoRet]
    /\ UNCHANGED <<table, seq, txn>>

\* PgPoolOptions::max_connections: the pool, here with as many connections
\* as there are callers, so that the callers can exhaust it.  An open
\* transaction holds one connection until it commits or is dropped.
PoolSize == NumProcs
ConnsInUse == Cardinality({q \in Procs : txn[q].open})

\* Acquisition of a connection (inside begin, and inside fetch_one on the
\* pool), as the pool built by init() does it: while the pool has a free
\* connection the caller gets it, or an error when the database fails it;
\* while the pool is exhausted the caller waits, and the wait ends with a
\* connection that came free or, after the pool's acquire timeout, which
\* init() leaves at its default, with an error.
AcquireOutcomes(inUse) ==
    IF inUse < PoolSize THEN {"conn", "err"} ELSE {"err"}

\* self.pool.begin() with a connection of the pool
DbPoolBegin(p, arg) ==
    /\ "conn" \in AcquireOutcomes(ConnsInUse)
    /\ DbBegin(p, arg)

\* self.pool.begin().await.unwrap() on an error
DbBeginErr(p) ==
    /\ dpc[p] = "begin"
    /\ "err" \in AcquireOutcomes(ConnsInUse)
    /\ dret' = [dret EXCEPT ![p] =
                   Panic("called Result::unwrap() on an Err value")]
    /\ dpc' = [dpc EXCEPT ![p] = "ret"]
    /\ UNCHANGED <<table, seq, txn, dop, darg, dloc>>

\* find / all: the statement on the pool fails; find maps the error to
\* Unexpected, all passes it on as it is.
DbQueryErr(p) ==
    /\ dpc[p] = "query"
    /\ dret' = [dret EXCEPT ![p] =
                   IF dop[p] = "find" THEN Unexpected("sqlx::Error")
                   ELSE SqlxError("sqlx::Error")]
    /\ dpc' = [dpc EXCEPT ![p] = "ret"]
    /\ UNCHANGED <<table, seq, txn, dop, darg, dloc>>

\* update: self.find(id) with a second connection of the pool
DbPoolUpdateFind(p) ==
    /\ "conn" \in AcquireOutcomes(ConnsInUse)
    /\ DbUpdateFind(p)

\* update: self.find(id).await? on an error other than RowNotFound; the
\* transaction is dropped.
DbUpdateFindErr_KeepsTxn(p) ==
    /\ dpc[p] = "upd_find"
    /\ "err" \in AcquireOutcomes(ConnsInUse)
    /\ dret' = [dret EXCEPT ![p] = Unexpected("sqlx::Error")]
    /\ dpc' = [dpc EXCEPT ![p] = "ret"]
    /\ UNCHANGED <<table, seq, txn, dop, darg, dloc>>
DbUpdateFindErr(p) ==
    /\ dpc[p] = "upd_find"
    /\ "err" \in AcquireOutcomes(ConnsInUse)
    /\ dret' = [dret EXCEPT ![p] = Unexpected("sqlx::Error")]
    /\ txn' = [txn EXCEPT ![p] = NoTxn]
    /\ dpc' = [dpc EXCEPT ![p] = "ret"]
    /\ UNCHANGED <<table, seq, dop, darg, dloc>>

\* The statement on the transaction fails: create and update panic in
\* unwrap_or_else, delete returns Unexpected through map_err; the
\* transaction is dropped, which rolls it back.
DbStatementErr(p) ==
    /\ dpc[p] \in {"crt_ins", "upd_exec", "del_exec"}
    /\ dret' = [dret EXCEPT ![p] =
                   CASE dop[p] = "create" -> Panic("Failed to create todo.")
                     [] dop[p] = "update" -> Panic("Failed to update todo.")
                     [] OTHER -> Unexpected("sqlx::Error")]
    /\ txn' = [txn EXCEPT ![p] = NoTxn]
    /\ dpc' = [dpc EXCEPT ![p] = "ret"]
    /\ UNCHANGED <<table, seq, dop, darg, dloc>>

\* transaction.commit() fails: unwrap_or_else panics, nothing is committed.
DbCommitErr(p) ==
    /\ dpc[p] = "commit"
    /\ dret' = [dret EXCEPT ![p] = Panic("Commit failed.")]
    /\ txn' = [txn EXCEPT ![p] = NoTxn]
    /\ dpc' = [dpc EXCEPT ![p] = "ret"]
    /\ UNCHANGED <<table, seq, dop, darg, dloc>>

DbInit ==
    /\ table = EmptyMap
    /\ seq = 0
    /\ txn = [p \in Procs |-> NoTxn]
    /\ dpc = [p \in Procs |-> "idle"]
    /\ dop = [p \in Procs |-> "none"]
    /\ darg = [p \in Procs |-> NoArg]
    /\ dloc = [p \in Procs |-> NoDbLoc]
    /\ dret = [p \in Procs |-> NoRet]

\* ------------------------------------------------------- specifications

NoJob == [op |-> "none", arg |-> NoArg]

NoFresh == [m |-> {}, d |-> {}]

BothInit ==
    /\ job = NoJob
    /\ corr = << >>
    /\ fresh = NoFresh
    /\ kept = {}
    /\ step = 0

Init == MemInit /\ DbInit /\ BothInit

\* Callers of the in-memory store.
Next ==
    \/ \E p \in Procs, op \in RepoOps :
          MemCall(p, op) /\ UNCHANGED <<dbVars, bothVars>>
    \/ \E p \in Procs : \E arg \in ArgsOf(mop[p], Ids) :
          MemAcquireWrite(p, arg) /\ UNCHANGED <<dbVars, bothVars>>
    \/ \E p \in Procs : \E arg \in ArgsOf(mop[p], Ids) :
          MemAcquireRead(p, arg) /\ UNCHANGED <<dbVars, bothVars>>
    \/ \E p \in Procs : MemCreateLen(p) /\ UNCHANGED <<dbVars, bothVars>>
    \/ \E p \in Procs : MemCreateInsert(p) /\ UNCHANGED <<dbVars, bothVars>>
    \/ \E p \in Procs : MemFindGet(p) /\ UNCHANGED <<dbVars, bothVars>>
    \/ \E p \in Procs : MemAllValues(p) /\ UNCHANGED <<dbVars, bothVars>>
    \/ \E p \in Procs : MemUpdateGet(p) /\ UNCHANGED <<dbVars, bothVars>>
    \/ \E p \in Procs : MemUpdateInsert(p) /\ UNCHANGED <<dbVars, bothVars>>
    \/ \E p \in Procs : MemDeleteRemove(p) /\ UNCHANGED <<dbVars, bothVars>>
    \/ \E p \in Procs : MemReturn(p) /\ UNCHANGED <<dbVars, bothVars>>

Spec == Init /\ [][Next]_vars

\* The ids callers pass where only the order of the steps is in question:
\* the first id, which is in the store at some times and not at others.
FirstId == {i \in Ids : \A j \in Ids : i <= j}

\* A caller that has called takes its next step: the lock, a step of the
\* body, or the return.
MemProceed(p) ==
    /\ \/ \E arg \in ArgsOf(mop[p], FirstId) : MemAcquireWrite(p, arg)
       \/ \E arg \in ArgsOf(mop[p], FirstId) : MemAcquireRead(p, arg)
       \/ MemCreateLen(p)
       \/ MemCreateInsert(p)
       \/ MemFindGet(p)
       \/ MemAllValues(p)
       \/ MemUpdateGet(p)
       \/ MemUpdateInsert(p)
       \/ MemDeleteRemove(p)
       \/ MemReturn(p)
    /\ UNCHANGED <<dbVars, bothVars>>

\* Callers of the in-memory store, each of which keeps running: a caller
\* whose next step stays possible takes it.
NextFair ==
    \/ \E p \in Procs, op \in RepoOps :
          MemCall(p, op) /\ UNCHANGED <<dbVars, bothVars>>
    \/ \E p \in Procs : \E arg \in ArgsOf(mop[p], FirstId) :
          MemAcquireWrite(p, arg) /\ UNCHANGED <<dbVars, bothVars>>
    \/ \E p \in Procs : \E arg \in ArgsOf(mop[p], FirstId) :
          MemAcquireRead(p, arg) /\ UNCHANGED <<dbVars, bothVars>>
    \/ \E p \in Procs : MemCreateLen(p) /\ UNCHANGED <<dbVars, bothVars>>
    \/ \E p \in Procs : MemCreateInsert(p) /\ UNCHANGED <<dbVars, bothVars>>
    \/ \E p \in Procs : MemFindGet(p) /\ UNCHANGED <<dbVars, bothVars>>
    \/ \E p \in Procs : MemAllValues(p) /\ UNCHANGED <<dbVars, bothVars>>
    \/ \E p \in Procs : MemUpdateGet(p) /\ UNCHANGED <<dbVars, bothVars>>
    \/ \E p \in Procs : MemUpdateInsert(p) /\ UNCHANGED <<dbVars, bothVars>>
    \/ \E p \in Procs : MemDeleteRemove(p) /\ UNCHANGED <<dbVars, bothVars>>
    \/ \E p \in Procs : MemReturn(p) /\ UNCHANGED <<dbVars, bothVars>>

SpecFair ==
    Init /\ [][NextFair]_vars /\ \A p \in Procs : WF_vars(MemProceed(p))

\* Callers of the persistent store.
NextDb ==
    \/ \E p \in Procs, op \in RepoOps :
          DbCall(p, op) /\ UNCHANGED <<memVars, bothVars>>
    \/ \E p \in Procs : \E arg \in ArgsOf(dop[p], DbIds) :
          DbBegin(p, arg) /\ UNCHANGED <<memVars, bothVars>>
    \/ \E p \in Procs : DbCreateInsert(p) /\ UNCHANGED <<memVars, bothVars>>
    \/ \E p \in Procs : \E arg \in ArgsOf(dop[p], DbIds) :
          DbFind(p, arg) /\ UNCHANGED <<memVars, bothVars>>
    \/ \E p \in Procs : DbAll(p) /\ UNCHANGED <<memVars, bothVars>>
    \/ \E p \in Procs : DbUpdateFind(p) /\ UNCHANGED <<memVars, bothVars>>
    \/ \E p \in Procs : DbUpdateExec(p) /\ UNCHANGED <<memVars, bothVars>>
    \/ \E p \in Procs : DbDeleteExec(p) /\ UNCHANGED <<memVars, bothVars>>
    \/ \E p \in Procs : DbCommit(p) /\ UNCHANGED <<memVars, bothVars>>
    \/ \E p \in Procs : DbReturn(p) /\ UNCHANGED <<memVars, bothVars>>

SpecDb == Init /\ [][NextDb]_vars

\* One caller issues every call to both backends.  A find, update or delete
\* names the Todo of an earlier create (the k-th), whose id each backend
\* chose for itself, or an id neither backend has issued (k = 0).
UnknownId == MaxTodos + 1
MemIdOf(k) == IF k = 0 THEN UnknownId ELSE corr[k][1]
DbIdOf(k) == IF k = 0 THEN UnknownId ELSE corr[k][2]
TakesId(op) == op \in {"find", "update", "delete"}
MemArg == [job.arg EXCEPT !.id = IF TakesId(job.op) THEN MemIdOf(@) ELSE 0]
DbArg == [job.arg EXCEPT !.id = IF TakesId(job.op) THEN DbIdOf(@) ELSE 0]
Caller == CHOOSE p \in Procs : \A q \in Procs : p <= q

BothCall(op, arg) ==
    /\ MemCall(Caller, op)
    /\ DbCall(Caller, op)
    /\ job' = [op |-> op, arg |-> arg]
    /\ UNCHANGED <<corr, fresh, kept, step>>

\* The Todos among `todos` that a returning call `op` on `id` leaves
\* standing, and the one its result `ret` adds.
Without(todos, id) == {t \in todos : t.id # id}
Returned(ret) == IF ret.kind = "Ok" THEN {ret.todo} ELSE {}
FreshAfter(todos, op, id, ret) ==
    CASE op = "create" -> Returned(ret)
      [] op = "update" -> Without(todos, id) \cup Returned(ret)
      [] op = "delete" -> Without(todos, id)
      [] OTHER -> todos
KeptAfter(todos, op, id, ret) ==
    CASE op = "create" -> todos \cup Returned(ret)
      [] op \in {"update", "delete"} -> Without(todos, id)
      [] OTHER -> todos

BothReturn ==
    /\ MemReturn(Caller)
    /\ DbReturn(Caller)
    /\ corr' = IF job.op = "create" /\ dret[Caller].kind = "Ok"
               THEN Append(corr, <<mret[Caller].todo.id, dret[Caller].todo.id>>)
               ELSE corr
    /\ fresh' = [m |-> FreshAfter(fresh.m, job.op, marg[Caller].id,
                                  mret[Caller]),
                 d |-> FreshAfter(fresh.d, job.op, darg[Caller].id,
                                  dret[Caller])]
    /\ job' = NoJob
    /\ UNCHANGED <<kept, step>>

NextBoth ==
    \/ \E op \in RepoOps : \E arg \in ArgsOf(op, 0..Len(corr)) :
          BothCall(op, arg)
    \/ MemAcquireWrite(Caller, MemArg) /\ UNCHANGED <<dbVars, bothVars>>
    \/ MemAcquireRead(Caller, MemArg) /\ UNCHANGED <<dbVars, bothVars>>
    \/ MemCreateLen(Caller) /\ UNCHANGED <<dbVars, bothVars>>
    \/ MemCreateInsert(Caller) /\ UNCHANGED <<dbVars, bothVars>>
    \/ MemFindGet(Caller) /\ UNCHANGED <<dbVars, bothVars>>
    \/ MemAllValues(Caller) /\ UNCHANGED <<dbVars, bothVars>>
    \/ MemUpdateGet(Caller) /\ UNCHANGED <<dbVars, bothVars>>
    \/ MemUpdateInsert(Caller) /\ UNCHANGED <<dbVars, bothVars>>
    \/ MemDeleteRemove(Caller) /\ UNCHANGED <<dbVars, bothVars>>
    \/ DbBegin(Caller, DbArg) /\ UNCHANGED <<memVars, bothVars>>
    \/ DbCreateInsert(Caller) /\ UNCHANGED <<memVars, bothVars>>
    \/ DbFind(Caller, DbArg) /\ UNCHANGED <<memVars, bothVars>>
    \/ DbAll(Caller) /\ UNCHANGED <<memVars, bothVars>>
    \/ DbUpdateFind(Caller) /\ UNCHANGED <<memVars, bothVars>>
    \/ DbUpdateExec(Caller) /\ UNCHANGED <<memVars, bothVars>>
    \/ DbDeleteExec(Caller) /\ UNCHANGED <<memVars, bothVars>>
    \/ DbCommit(Caller) /\ UNCHANGED <<memVars, bothVars>>
    \/ BothReturn

SpecBoth == Init /\ [][NextBoth]_vars

\* One caller of the persistent store, whose pool and database may fail it
\* at every step.
NextFaults ==
    \/ \E op \in RepoOps :
          DbCall(Caller, op) /\ UNCHANGED <<memVars, bothVars>>
    \/ \E arg \in ArgsOf(dop[Caller], DbIds) :
          DbPoolBegin(Caller, arg) /\ UNCHANGED <<memVars, bothVars>>
    \/ DbBeginErr(Caller) /\ UNCHANGED <<memVars, bothVars>>
    \/ DbCreateInsert(Caller) /\ UNCHANGED <<memVars, bothVars>>
    \/ \E arg \in ArgsOf(dop[Caller], DbIds) :
          DbFind(Caller, arg) /\ UNCHANGED <<memVars, bothVars>>
    \/ DbAll(Caller) /\ UNCHANGED <<memVars, bothVars>>
    \/ DbQueryErr(Caller) /\ UNCHANGED <<memVars, bothVars>>
    \/ DbPoolUpdateFind(Caller) /\ UNCHANGED <<memVars, bothVars>>
    \/ DbUpdateFindErr(Caller) /\ UNCHANGED <<memVars, bothVars>>
    \/ DbUpdateExec(Caller) /\ UNCHANGED <<memVars, bothVars>>
    \/ DbDeleteExec(Caller) /\ UNCHANGED <<memVars, bothVars>>
    \/ DbStatementErr(Caller) /\ UNCHANGED <<memVars, bothVars>>
    \/ DbCommit(Caller) /\ UNCHANGED <<memVars, bothVars>>
    \/ DbCommitErr(Caller) /\ UNCHANGED <<memVars, bothVars>>
    \/ DbReturn(Caller) /\ UNCHANGED <<memVars, bothVars>>

SpecFaults == Init /\ [][NextFaults]_vars

\* Callers that create and update through the pool; every update is of the
\* first row.
FirstDbId == {i \in DbIds : \A j \in DbIds : i <= j}

NextPool ==
    \/ \E p \in Procs, op \in {"create", "update"} :
          DbCall(p, op) /\ UNCHANGED <<memVars, bothVars>>
    \/ \E p \in Procs : \E arg \in ArgsOf(dop[p], FirstDbId) :
          DbPoolBegin(p, arg) /\ UNCHANGED <<memVars, bothVars>>
    \/ \E p \in Procs : DbBeginErr(p) /\ UNCHANGED <<memVars, bothVars>>
    \/ \E p \in Procs : DbCreateInsert(p) /\ UNCHANGED <<memVars, bothVars>>
    \/ \E p \in Procs : DbPoolUpdateFind(p) /\ UNCHANGED <<memVars, bothVars>>
    \/ \E p \in Procs : DbUpdateFindErr(p) /\ UNCHANGED <<memVars, bothVars>>
    \/ \E p \in Procs : DbUpdateExec(p) /\ UNCHANGED <<memVars, bothVars>>
    \/ \E p \in Procs : DbCommit(p) /\ UNCHANGED <<memVars, bothVars>>
    \/ \E p \in Procs : DbReturn(p) /\ UNCHANGED <<memVars, bothVars>>

\* A caller's acquisition of a connection ends, with a connection or, at
\* the latest when the acquire timeout has passed, with an error; its
\* statement on a row is served when the row is free again and again (the
\* database queues the waiters of a row); its other steps are taken.
DbAcquire(p) ==
    /\ \/ \E arg \in ArgsOf(dop[p], FirstDbId) : DbPoolBegin(p, arg)
       \/ DbBeginErr(p)
       \/ DbPoolUpdateFind(p)
       \/ DbUpdateFindErr(p)
    /\ UNCHANGED <<memVars, bothVars>>
DbStatement(p) == DbUpdateExec(p) /\ UNCHANGED <<memVars, bothVars>>
DbProceed(p) ==
    /\ DbCreateInsert(p) \/ DbCommit(p) \/ DbReturn(p)
    /\ UNCHANGED <<memVars, bothVars>>

SpecPool ==
    /\ Init /\ [][NextPool]_vars
    /\ \A p \in Procs :
          WF_vars(DbAcquire(p)) /\ SF_vars(DbStatement(p))
              /\ WF_vars(DbProceed(p))

\* One caller of the in-memory store, one call after the other.
SeqReturn ==
    /\ MemReturn(Caller)
    /\ kept' = KeptAfter(kept, mop[Caller], marg[Caller].id, mret[Caller])
    /\ UNCHANGED <<dbVars, job, corr, fresh, step>>

NextSeq ==
    \/ \E op \in RepoOps :
          MemCall(Caller, op) /\ UNCHANGED <<dbVars, bothVars>>
    \/ \E arg \in ArgsOf(mop[Caller], Ids) :
          MemAcquireWrite(Caller, arg) /\ UNCHANGED <<dbVars, bothVars>>
    \/ \E arg \in ArgsOf(mop[Caller], Ids) :
          MemAcquireRead(Caller, arg) /\ UNCHANGED <<dbVars, bothVars>>
    \/ MemCreateLen(Caller) /\ UNCHANGED <<dbVars, bothVars>>
    \/ MemCreateInsert(Caller) /\ UNCHANGED <<dbVars, bothVars>>
    \/ MemFindGet(Caller) /\ UNCHANGED <<dbVars, bothVars>>
    \/ MemAllValues(Caller) /\ UNCHANGED <<dbVars, bothVars>>
    \/ MemUpdateGet(Caller) /\ UNCHANGED <<dbVars, bothVars>>
    \/ MemUpdateInsert(Caller) /\ UNCHANGED <<dbVars, bothVars>>
    \/ MemDeleteRemove(Caller) /\ UNCHANGED <<dbVars, bothVars>>
    \/ SeqReturn

SpecSeq == Init /\ [][NextSeq]_vars

\* The scripted scenario: one caller makes these calls in this order on a
\* fresh in-memory store, while the other callers read it.
Scenario ==
    << [op |-> "create",
        arg |-> [id |-> 0, text |-> Some("buy milk"), completed |-> None]],
       [op |-> "update",
        arg |-> [id |-> 1, text |-> None, completed |-> Some(TRUE)]],
       [op |-> "find", arg |-> [id |-> 1, text |-> None, completed |-> None]],
       [op |-> "delete", arg |-> [id |-> 1, text |-> None, completed |-> None]],
       [op |-> "find", arg |-> [id |-> 1, text |-> None, completed |-> None]] >>

ScenarioCall ==
    /\ step < Len(Scenario)
    /\ MemCall(Caller, Scenario[step + 1].op)
    /\ step' = step + 1
    /\ UNCHANGED <<dbVars, job, corr, fresh, kept>>

\* The arguments of the script's current call, and those of a caller's
\* read: the script's, or any.
ScriptArg == IF step = 0 THEN NoArg ELSE Scenario[step].arg
ReadArgs(p) == IF p = Caller THEN {ScriptArg} ELSE ArgsOf(mop[p], Ids)

NextScenario ==
    \/ ScenarioCall
    \/ \E p \in Procs \ {Caller}, op \in {"find", "all"} :
          MemCall(p, op) /\ UNCHANGED <<dbVars, bothVars>>
    \/ MemAcquireWrite(Caller, ScriptArg) /\ UNCHANGED <<dbVars, bothVars>>
    \/ \E p \in Procs : \E arg \in ReadArgs(p) :
          MemAcquireRead(p, arg) /\ UNCHANGED <<dbVars, bothVars>>
    \/ MemCreateLen(Caller) /\ UNCHANGED <<dbVars, bothVars>>
    \/ MemCreateInsert(Caller) /\ UNCHANGED <<dbVars, bothVars>>
    \/ \E p \in Procs : MemFindGet(p) /\ UNCHANGED <<dbVars, bothVars>>
    \/ \E p \in Procs : MemAllValues(p) /\ UNCHANGED <<dbVars, bothVars>>
    \/ MemUpdateGet(Caller) /\ UNCHANGED <<dbVars, bothVars>>
    \/ MemUpdateInsert(Caller) /\ UNCHANGED <<dbVars, bothVars>>
    \/ MemDeleteRemove(Caller) /\ UNCHANGED <<dbVars, bothVars>>
    \/ \E p \in Procs : MemReturn(p) /\ UNCHANGED <<dbVars, bothVars>>

SpecScenario == Init /\ [][NextScenario]_vars

\* ------------------------------------------------------------------ claims

\* What a partial update of `prev` by `payload` is: each field the payload
\* carries, and the previous value of each field it does not.
PartialUpdate(prev, payload) ==
    [id |-> prev.id,
     text |-> IF payload.text = None THEN prev.text ELSE payload.text[1],
     completed |-> IF payload.completed = None THEN prev.completed
                   ELSE payload.completed[1]]

MemReturned(p, op) == mpc[p] = "ret" /\ mop[p] = op
DbReturned(p, op) == dpc[p] = "ret" /\ dop[p] = op

\* C1: create returns a Todo with completed = false and the payload's text,
\* and the id it is about to insert under is not the id of a Todo live in
\* the store, so that the insert adds an entry and replaces none.
C1_CreateReturnsFreshTodo ==
    \A p \in Procs :
        /\ mpc[p] = "crt_ins" => mloc[p].id \notin DOMAIN store
        /\ MemReturned(p, "create") =>
              /\ mret[p].kind = "Ok"
              /\ mret[p].todo.completed = FALSE
              /\ mret[p].todo.text = marg[p].text[1]

\* C2: no id is returned by two create calls of one store, also after the
\* Todo that held it was deleted.
C2_NoIdIssuedTwice == \A i \in Ids : issued[i] <= 1

\* C3: whenever no writer is inside the store, all() would return exactly
\* N - M Todos after N returned creates and M successful deletes, and their
\* ids are the created ids that are not deleted.
C3_AllAfterCreatesAndDeletes ==
    lockWriter = NoProc =>
        LET todos == MapValues(store)
        IN /\ Cardinality(todos) = Sum(issued) - Sum(removed)
           /\ {t.id : t \in todos} = {i \in Ids : issued[i] > removed[i]}

\* C4: find, update and delete of an id that is not a key of the store
\* return NotFound(id) and leave the store as it was.
C4_NotFoundLeavesStore ==
    [][\A p \in Procs :
          (/\ mpc[p] \in {"find_get", "upd_get", "del_rm"}
           /\ mpc'[p] # mpc[p]
           /\ marg[p].id \notin DOMAIN store)
          => /\ mpc'[p] = "ret"
             /\ mret'[p].kind = "NotFound"
             /\ mret'[p].id = marg[p].id
             /\ store' = store]_vars

\* A second delete of an id that was deleted, and is not in the store, has
\* returned NotFound.
C4_SecondDeleteNotFound ==
    \E p \in Procs :
        /\ MemReturned(p, "delete")
        /\ removed[marg[p].id] > 0
        /\ marg[p].id \notin DOMAIN store
        /\ mret[p].kind = "NotFound"

\* C5: the persistent store's delete returns success exactly when its
\* statement removed a row, and NotFound when there was no row with the id.
C5_DbDeleteSignalsNotFound ==
    \A p \in Procs :
        DbReturned(p, "delete") =>
            /\ dret[p].kind = "OkUnit" <=> dloc[p].n = 1
            /\ dloc[p].n = 0 => dret[p].kind = "NotFound"

\* C6: in both backends an update of an existing Todo stores and returns the
\* previous Todo with exactly the payload's present fields replaced.
C6_PartialUpdateBothBackends ==
    [][\A p \in Procs :
          /\ (mpc[p] = "upd_ins" /\ mpc'[p] = "ret") =>
                /\ marg[p].id \in DOMAIN store
                /\ store'[marg[p].id] = PartialUpdate(store[marg[p].id], marg[p])
                /\ mret'[p] = Ok(store'[marg[p].id])
          /\ (dpc[p] = "commit" /\ dop[p] = "update" /\ dpc'[p] = "ret") =>
                /\ darg[p].id \in DOMAIN table
                /\ table'[darg[p].id] = PartialUpdate(table[darg[p].id], darg[p])
                /\ dret'[p] = Ok(table'[darg[p].id])]_vars

\* Both backends have returned from an update that carried only `completed`
\* and kept the text "b".
C6_OnlyCompletedUpdated ==
    /\ MemReturned(Caller, "update") /\ DbReturned(Caller, "update")
    /\ job.arg.text = None /\ job.arg.completed = Some(TRUE)
    /\ mret[Caller].kind = "Ok" /\ dret[Caller].kind = "Ok"
    /\ mret[Caller].todo.text = "b" /\ mret[Caller].todo.completed
    /\ dret[Caller].todo.text = "b" /\ dret[Caller].todo.completed
    /\ store[marg[Caller].id] = mret[Caller].todo
    /\ table[darg[Caller].id] = dret[Caller].todo

\* C7: once the creates of a concurrent batch have all returned, with no
\* update or delete since the batch began, their ids are pairwise distinct
\* and all() would return every one of their Todos.
C7_ConcurrentCreatesDistinct ==
    (burst.open = {} /\ burst.n > 0) =>
        /\ Cardinality({t.id : t \in burst.got}) = burst.n
        /\ burst.got \subseteq MapValues(store)

\* C8: the write of an update is the partial update of the Todo the store
\* holds at that moment (no write of another caller is lost), and find and
\* all read the store only while no writer is inside it.
C8_UpdateAtomic ==
    [][\A p \in Procs :
          /\ (mpc[p] = "upd_ins" /\ mpc'[p] = "ret") =>
                /\ marg[p].id \in DOMAIN store
                /\ store' = MapInsert(store, marg[p].id,
                                PartialUpdate(store[marg[p].id], marg[p]))
          /\ (mpc[p] \in {"find_get", "all_vals"} /\ mpc'[p] = "ret") =>
                /\ lockWriter = NoProc
                /\ \A q \in Procs : mpc[q] \notin {"crt_ins", "upd_ins"}]_vars

\* An update that carried only `completed` has returned a Todo whose text
\* "b" an earlier update set, while another update waits for the lock.
C8_UpdateWhileAnotherWaits ==
    \E p, q \in Procs :
        /\ p # q
        /\ MemReturned(p, "update")
        /\ marg[p].text = None /\ marg[p].completed = Some(TRUE)
        /\ mret[p].kind = "Ok" /\ mret[p].todo.text = "b"
        /\ mpc[q] = "wlock" /\ mop[q] = "update"

\* C9: when an update that set only the text and an update that set only
\* `completed` have both committed for the same id, the row carries both.
C9_DbNoLostUpdate ==
    \A p, q \in Procs :
        (/\ p # q
         /\ DbReturned(p, "update") /\ DbReturned(q, "update")
         /\ dret[p].kind = "Ok" /\ dret[q].kind = "Ok"
         /\ darg[p].id = darg[q].id
         /\ darg[p].text # None /\ darg[p].completed = None
         /\ darg[q].text = None /\ darg[q].completed # None
         /\ darg[p].id \in DOMAIN table)
        => /\ table[darg[p].id].text = darg[p].text[1]
           /\ table[darg[p].id].completed = darg[q].completed[1]

\* The ids the two backends gave correspond one to one.
OneToOne(pairs) ==
    \A i, j \in 1..Len(pairs) :
        (pairs[i][1] = pairs[j][1]) <=> (pairs[i][2] = pairs[j][2])
SameTodo(mt, dt, pairs) ==
    /\ mt.text = dt.text
    /\ mt.completed = dt.completed
    /\ \E i \in 1..Len(pairs) : pairs[i] = <<mt.id, dt.id>>
SameOutcome(op, mr, dr) ==
    /\ mr.kind = dr.kind
    /\ (mr.kind = "Ok" /\ op = "create") =>
          LET pairs == Append(corr, <<mr.todo.id, dr.todo.id>>)
          IN OneToOne(pairs) /\ SameTodo(mr.todo, dr.todo, pairs)
    /\ (mr.kind = "Ok" /\ op # "create") => SameTodo(mr.todo, dr.todo, corr)
    /\ mr.kind = "OkAll" =>
          /\ \A mt \in mr.todos : \E dt \in dr.todos : SameTodo(mt, dt, corr)
          /\ \A dt \in dr.todos : \E mt \in mr.todos : SameTodo(mt, dt, corr)
          /\ Cardinality(mr.todos) = Cardinality(dr.todos)

\* C10: every call one caller issues to both backends returns the same
\* outcome from both, under a one-to-one correspondence of their ids.
C10_BackendsAgree ==
    (mpc[Caller] = "ret" /\ dpc[Caller] = "ret") =>
        SameOutcome(job.op, mret[Caller], dret[Caller])

\* The positions at which a caller is inside its critical section: from the
\* lock's acquisition to the return that drops the guard.
InWrite(p) ==
    \/ mpc[p] \in {"crt_len", "crt_ins", "upd_get", "upd_ins", "del_rm"}
    \/ mpc[p] = "ret" /\ mop[p] \in {"create", "update", "delete"}
InRead(p) ==
    \/ mpc[p] \in {"find_get", "all_vals"}
    \/ mpc[p] = "ret" /\ mop[p] \in {"find", "all"}

\* C13: a caller inside create, update or delete holds the write guard and
\* no other caller is inside any operation at that time; a caller inside
\* find or all holds a read guard.
C13_LockDiscipline ==
    \A p \in Procs :
        /\ InWrite(p) =>
              /\ lockWriter = p
              /\ lockReaders = {}
              /\ \A q \in Procs \ {p} : ~InWrite(q) /\ ~InRead(q)
        /\ InRead(p) => p \in lockReaders /\ lockWriter = NoProc

\* Two callers are inside find at the same time, each about to read the map.
C13_TwoReadersInside ==
    \E p, q \in Procs :
        /\ p # q
        /\ mpc[p] = "find_get" /\ mpc[q] = "find_get"
        /\ {p, q} \subseteq lockReaders

\* C17: no step of find or all changes the store; every step of an update
\* keeps the key set and every Todo under another id, and the Todo it
\* writes carries the id it was asked for; a delete that succeeds removes
\* the entry of its id and no other; and every stored Todo's id is its key.
C17_FrameConditions ==
    [][/\ \A p \in Procs :
             /\ (mop[p] \in {"find", "all"} /\ mpc'[p] # mpc[p]) =>
                   store' = store
             /\ (mop[p] = "update" /\ mpc'[p] # mpc[p]) =>
                   /\ DOMAIN store' = DOMAIN store
                   /\ \A k \in DOMAIN store \ {marg'[p].id} :
                         store'[k] = store[k]
                   /\ (mpc'[p] = "ret" /\ mret'[p].kind = "Ok") =>
                         /\ mret'[p].todo.id = marg[p].id
                         /\ store'[marg[p].id] = mret'[p].todo
             /\ (mpc[p] = "del_rm" /\ mpc'[p] = "ret"
                   /\ mret'[p].kind = "OkUnit") =>
                   /\ marg[p].id \in DOMAIN store
                   /\ DOMAIN store' = DOMAIN store \ {marg[p].id}
                   /\ \A k \in DOMAIN store' : store'[k] = store[k]
       /\ \A k \in DOMAIN store' : store'[k].id = k]_vars

\* A delete has succeeded and left the Todos of other ids in the store,
\* one of them completed by an earlier update.
C17_DeleteLeftOthers ==
    \E p \in Procs :
        /\ MemReturned(p, "delete")
        /\ mret[p].kind = "OkUnit"
        /\ marg[p].id \notin DOMAIN store
        /\ \E k \in DOMAIN store : store[k].completed

\* C18: the id a create is about to insert under, and the id it returns,
\* is the number of Todos in the store at that moment plus one (as they
\* were before the insert, for the returned id).
C18_IdIsLenPlusOne ==
    \A p \in Procs :
        /\ mpc[p] = "crt_ins" => mloc[p].id = Cardinality(DOMAIN store) + 1
        /\ MemReturned(p, "create") =>
              /\ mret[p].todo.id = mloc[p].id
              /\ mret[p].todo.id \in
                    {Cardinality(DOMAIN store), Cardinality(DOMAIN store) + 1}

\* A create is about to insert under an id that is neither the largest id
\* present plus one nor the number of ids issued plus one.
C18_NotMaxNotCount ==
    \E p \in Procs :
        /\ mpc[p] = "crt_ins"
        /\ DOMAIN store # {}
        /\ \E k \in DOMAIN store : k >= mloc[p].id
        /\ mloc[p].id # Sum(issued) + 1

\* C20: while no delete has succeeded and no writer is inside the store,
\* its key set is 1..n for the n creates that have returned; and a create
\* that holds the lock then is about to insert under n + 1.
C20_KeysAreOneToN ==
    Sum(removed) = 0 =>
        /\ lockWriter = NoProc => DOMAIN store = 1..Sum(issued)
        /\ \A p \in Procs :
              /\ mpc[p] = "crt_ins" => mloc[p].id = Sum(issued) + 1
              /\ MemReturned(p, "create") =>
                    /\ mret[p].todo.id = Sum(issued) + 1
                    /\ DOMAIN store = 1..(Sum(issued) + 1)

\* Two creates have returned, an update and reads have run, no delete has
\* succeeded, and a third create returns id 3.
C20_ThirdCreate ==
    \E p \in Procs :
        /\ MemReturned(p, "create")
        /\ Sum(removed) = 0 /\ Sum(issued) = 2
        /\ mret[p].todo.id = 3
        /\ \E k \in DOMAIN store : store[k].completed

\* C12: in both backends a find of the id of a Todo that the last create,
\* or a successful update since, returned, with no update or delete of that
\* id and no create in between, returns that Todo, equal in id, text and
\* completed.
C12_FindReturnsLastWritten ==
    (mpc[Caller] = "ret" /\ dpc[Caller] = "ret" /\ job.op = "find") =>
        /\ \A t \in fresh.m : t.id = marg[Caller].id => mret[Caller] = Ok(t)
        /\ \A t \in fresh.d : t.id = darg[Caller].id => dret[Caller] = Ok(t)

\* Both backends return, from a find, the completed Todo an update
\* returned, an update of another Todo having run in between.
C12_FindAfterUpdate ==
    /\ mpc[Caller] = "ret" /\ dpc[Caller] = "ret" /\ job.op = "find"
    /\ Cardinality(fresh.m) = 2 /\ Cardinality(fresh.d) = 2
    /\ mret[Caller].kind = "Ok" /\ dret[Caller].kind = "Ok"
    /\ mret[Caller].todo \in fresh.m /\ dret[Caller].todo \in fresh.d
    /\ mret[Caller].todo.completed /\ dret[Caller].todo.completed

\* C16: all() returns every Todo a create returned before it was called
\* whose id was neither updated nor deleted in between.
C16_AllContainsCreated ==
    (mpc[Caller] = "ret" /\ mop[Caller] = "all") =>
        kept \subseteq mret[Caller].todos

\* What the calls of the scenario are to return, in order.
BuyMilk(completed) == [id |-> 1, text |-> "buy milk", completed |-> completed]
Expected ==
    << Ok(BuyMilk(FALSE)), Ok(BuyMilk(TRUE)), Ok(BuyMilk(TRUE)), OkUnit,
       NotFound(1) >>

\* C14: on a fresh in-memory store, create "buy milk", update(1,
\* completed: true), find(1), delete(1), find(1) return, in this order,
\* {1, "buy milk", false}, {1, "buy milk", true}, the same again, success,
\* and NotFound.
C14_LiteralScenario ==
    mpc[Caller] = "ret" => mret[Caller] = Expected[step]

\* The last call of the scenario, the find after the delete, has returned
\* NotFound and the store is empty again.
C14_ScenarioDone ==
    /\ step = Len(Scenario)
    /\ mpc[Caller] = "ret"
    /\ mret[Caller] = NotFound(1)
    /\ store = EmptyMap
    /\ issued[1] = 1 /\ removed[1] = 1

\* No caller waits for a lock that nobody inside the store holds.
NoLockDeadlock ==
    \A p \in Procs :
        /\ mpc[p] = "wlock" =>
              CanWrite \/ \E q \in Procs : InWrite(q) \/ InRead(q)
        /\ mpc[p] = "rlock" => CanRead \/ \E q \in Procs : InWrite(q)

\* C15: under weak fairness of every caller's steps every call of the
\* in-memory store eventually returns, and no caller waits for a lock that
\* nobody holds.
C15_EveryCallReturns ==
    /\ \A p \in Procs : (mpc[p] # "idle") ~> (mpc[p] = "idle")
    /\ []NoLockDeadlock

\* C15, amended: under weak fairness of every caller's steps every call that
\* has acquired the lock eventually returns and has released it, on the
\* NotFound paths too, and no caller waits for a lock that nobody holds.
C15_LockHolderReturns ==
    /\ \A p \in Procs :
          (InWrite(p) \/ InRead(p)) ~>
              (mpc[p] = "idle" /\ lockWriter # p /\ p \notin lockReaders)
    /\ []NoLockDeadlock

\* An update that found no Todo is about to return NotFound, still holding
\* the write guard, while another caller waits for the lock.
C15_NotFoundHoldsLock ==
    \E p, q \in Procs :
        /\ MemReturned(p, "update")
        /\ mret[p].kind = "NotFound"
        /\ lockWriter = p
        /\ mpc[q] \in {"wlock", "rlock"}

\* C11: every operation of the persistent store returns a success value, or
\* an error of kind NotFound or Unexpected; it never panics.
C11_DbNeverPanics ==
    \A p \in Procs :
        dpc[p] = "ret" =>
            dret[p].kind \in {"Ok", "OkAll", "OkUnit", "NotFound", "Unexpected"}

\* Every caller holds the connection of its update's transaction and waits
\* for a second connection, for the read of the current row: the pool is
\* exhausted.
AllHoldAndWait ==
    /\ \A p \in Procs : dpc[p] = "upd_find" /\ txn[p].open
    /\ ConnsInUse = PoolSize

====
